---- MODULE Spec2Model ----
(***************************************************************************)
(* go-spot: the Go extractor (goanalyzer: analyze, processInterface,       *)
(* processStruct) and the TypeScript service that post-processes its       *)
(* output (goAnalyzer.ts: methodsMatch, implementsInterface,               *)
(* GoAnalyzerService.analyzeWorkspace and getStruct), and the extension    *)
(* around them (extension.ts: AnalysisCacheManager, StorageManager,        *)
(* decorateStructDeclarations, handleMouseClick).                          *)
(*                                                                         *)
(* Go values keep the Go field names (Name, Position, Methods, ...); the   *)
(* JSON text printed by the extractor and the objects the TypeScript side  *)
(* works on keep the JSON field names (name, position, methods, ...).      *)
(* A rendered type string is a sequence of one-character strings, so that  *)
(* its length and its characters can be inspected.                         *)
(***************************************************************************)
EXTENDS Integers, Sequences, FiniteSets, TLC

VARIABLES
    workspaceFolders, \* vscode.workspace.workspaceFolders is defined
    workspacePath,   \* analyzeWorkspace: its argument
    program,         \* what `go run .` runs in the analyzer directory
    pkgs,            \* the packages packages.Load returned for the workspace
    pkgIdx,          \* analyze: index of the package being visited
    nameIdx,         \* analyze: index into scope.Names() of that package
    goResult,        \* analyze: the AnalysisResult under construction
    spawned,         \* analyzeWorkspace: the analyzer process has been spawned
    stdout,          \* analyzeWorkspace: the text collected from the analyzer process
    exitCode,        \* the exit code of the analyzer process, -1 while it runs
    closed,          \* the close event of the analyzer process has been handled
    settled,         \* the promise of analyzeWorkspace: pending, resolved, rejected
    result,          \* the value the promise resolved with
    rejection,       \* the message of the error the promise was rejected with
    parsed,          \* the close handler: what JSON.parse returned, as the handler left it
    structMethod,    \* methodsMatch: first argument
    interfaceMethod, \* methodsMatch: second argument
    matched,         \* methodsMatch: <<>> before the call, then <<the value returned>>
    calls,           \* concurrent analyzeWorkspace calls: the position and locals of each
    goMod,           \* the analyzer directory holds a go.mod
    sourceGoMod,     \* the goanalyzer source directory holds a go.mod
    cache,           \* AnalysisCacheManager.cache: 0 for null, else a reference into heap
    lastAnalysisTime, \* AnalysisCacheManager.lastAnalysisTime
    now,             \* Date.now()
    heap,            \* the result objects analyzeWorkspace resolved with, by reference
    callers,         \* the getAnalysisData calls in flight, by caller
    handed,          \* the results getAnalysisData returned, in the order of the returns
    structName,      \* getStruct: its argument structName
    getStructPc,     \* getStruct: idle, awaiting its analysis, returned, thrown
    returned,        \* getStruct: the value it returned
    analysisData,    \* StorageManager: the analysis data in the workspace state
    document,        \* the editor's document: the struct declarations in its text
    decorations,     \* the decorations decorateStructDeclarations set on the editor
    decorated,       \* decorateStructDeclarations: not run, returned early, set decorations
    lastClickPosition, \* activate: the position of the last click that navigated
    navigations      \* the selection changes that executed go-spot.navigateToTest

inputVars == <<workspaceFolders, workspacePath, program>>
extractorVars == <<pkgs, pkgIdx, nameIdx, goResult>>
callVars == <<spawned, stdout, exitCode, closed, settled, result, rejection, parsed>>
matchVars == <<structMethod, interfaceMethod, matched>>
concVars == <<calls, goMod, sourceGoMod>>
cacheVars == <<cache, lastAnalysisTime, now, heap, callers, handed>>
lookupVars == <<structName, getStructPc, returned>>
decorateVars == <<analysisData, document, decorations, decorated>>
clickVars == <<lastClickPosition, navigations>>
extensionVars == <<lookupVars, decorateVars, clickVars>>

vars == <<inputVars, extractorVars, callVars, matchVars, concVars, cacheVars,
          extensionVars>>

Nil == [nil |-> TRUE]

\* the JavaScript values undefined and null
Undefined == [undefined |-> TRUE]
Null == [null |-> TRUE]

-----------------------------------------------------------------------------
(* Bounds *)

\* the largest number of type declarations in a workspace
MaxDecls == 3
\* the largest number of parameters plus return types of a method signature
\* handed to methodsMatch
MaxSlots == 2

-----------------------------------------------------------------------------
(* Names and rendered types.  Go orders identifiers bytewise; the sequences  *)
(* below list the identifiers of the model in that order.                    *)

TypeNames == <<"Circle", "Shape", "Square">>
MethodNames == <<"Area", "Get", "Name", "SetName">>

tK == <<"K">>
tV == <<"V">>
tk == <<"k">>
tKV == <<"K", "V">>
tInt == <<"i", "n", "t">>
tString == <<"s", "t", "r", "i", "n", "g">>
tFloat64 == <<"f", "l", "o", "a", "t", "6", "4">>
tPoint == <<"g", "e", "o", ".", "P", "t">>

UpperCase == {"A", "B", "C", "D", "E", "F", "G", "H", "I", "J", "K", "L", "M",
              "N", "O", "P", "Q", "R", "S", "T", "U", "V", "W", "X", "Y", "Z"}

Rank(order, x) == CHOOSE i \in 1..Len(order) : order[i] = x

\* the elements of the set S of identifiers, in the order of `order`
RECURSIVE SortNames(_, _)
SortNames(S, order) ==
    IF S = {} THEN <<>>
    ELSE LET m == CHOOSE x \in S : \A y \in S : Rank(order, x) <= Rank(order, y)
         IN <<m>> \o SortNames(S \ {m}, order)

MapSeq(s, Op(_)) == [i \in 1..Len(s) |-> Op(s[i])]

-----------------------------------------------------------------------------
(* The type-checked program: what go/packages and go/types hand to analyze. *)

\* a method declaration: signature, receiver kind and the line it is on,
\* relative to the line of the type it belongs to
Func(name, params, results, ptrRecv, offset) ==
    [name |-> name, params |-> params, results |-> results,
     ptrRecv |-> ptrRecv, offset |-> offset]

Var(name, type) == [name |-> name, type |-> type]

\* type Shape interface { Area() float64 }
iShape == [kind |-> "interface", fields |-> <<>>,
           methods |-> <<Func("Area", <<>>, <<tFloat64>>, FALSE, 1)>>]
\* type Getter[K comparable, V any] interface { Get(key K) V }
iGetter == [kind |-> "interface", fields |-> <<>>,
            methods |-> <<Func("Get", <<Var("key", tK)>>, <<tV>>, FALSE, 1)>>]
\* type Named interface { SetName(n string); Name() string }
iNamed == [kind |-> "interface", fields |-> <<>>,
           methods |-> <<Func("SetName", <<Var("n", tString)>>, <<>>, FALSE, 1),
                         Func("Name", <<>>, <<tString>>, FALSE, 2)>>]
\* type Any interface {}
iEmpty == [kind |-> "interface", fields |-> <<>>, methods |-> <<>>]
\* type Circle struct { r float64 }
\* func (c *Circle) Area() float64; func (c Circle) Get(key string) int
sCircle == [kind |-> "struct",
            fields |-> <<[anonymous |-> FALSE, type |-> tFloat64]>>,
            methods |-> <<Func("Area", <<>>, <<tFloat64>>, TRUE, 5),
                          Func("Get", <<Var("key", tString)>>, <<tInt>>, FALSE, 7)>>]
\* type Person struct { geo.Pt; name string }
\* func (p *Person) SetName(n string); func (p Person) Name() string
sPerson == [kind |-> "struct",
            fields |-> <<[anonymous |-> TRUE, type |-> tPoint],
                         [anonymous |-> FALSE, type |-> tString]>>,
            methods |-> <<Func("SetName", <<Var("n", tString)>>, <<>>, TRUE, 5),
                          Func("Name", <<>>, <<tString>>, FALSE, 7)>>]
\* type Square struct {}
\* func (s Square) Name() string
sSquare == [kind |-> "struct", fields |-> <<>>,
            methods |-> <<Func("Name", <<>>, <<tString>>, FALSE, 5)>>]

Bodies == {iShape, iGetter, iNamed, iEmpty, sCircle, sPerson, sSquare}

\* the packages of a workspace in the order packages.Load lists them, each
\* with the file its declarations are in and the identifiers it may declare
PkgPaths == <<"interfaces", "repositories">>
PkgFile == <<
    <<"home", "ws", "internal", "interfaces", "repository.go">>,
    <<"home", "ws", "internal", "repositories", "user_repository.go">> >>
PkgNames == << {"Circle", "Shape", "Square"}, {"Shape", "Square"} >>

Slots == {sl \in (1..Len(PkgPaths)) \X {TypeNames[i] : i \in 1..Len(TypeNames)} :
            sl[2] \in PkgNames[sl[1]]}

\* the object a scope holds for a declared type
Object(p, name, body) ==
    [name |-> name, kind |-> body.kind, fields |-> body.fields,
     methods |-> body.methods, file |-> PkgFile[p],
     line |-> 10 * Rank(TypeNames, name)]

\* a package whose scope holds the declarations decl assigns to its slots
Package(p, decl, errs) ==
    [PkgPath |-> PkgPaths[p],
     Errors |-> (p \in errs),
     Scope |-> [n \in {sl[2] : sl \in {s \in DOMAIN decl : s[1] = p}} |->
                    Object(p, n, decl[<<p, n>>])]]

Workspaces ==
    { [p \in 1..Len(PkgPaths) |-> Package(p, decl, errs)] :
        decl \in UNION { [S -> Bodies] :
                           S \in {T \in SUBSET Slots : Cardinality(T) <= MaxDecls} },
        errs \in {{}} \cup {{p} : p \in 1..Len(PkgPaths)} }

\* types.Scope.Names: the declared identifiers, sorted
Names(scope) == SortNames(DOMAIN scope, TypeNames)

\* types.Scope.Lookup
Lookup(scope, name) == IF name \in DOMAIN scope THEN scope[name] ELSE Nil

\* types.NewMethodSet(named) and types.NewMethodSet(types.NewPointer(named)):
\* the methods callable on a value, or on a pointer, ordered by identifier
MethodSet(obj, pointer) ==
    LET callable == {i \in 1..Len(obj.methods) : pointer \/ ~obj.methods[i].ptrRecv}
        byName(n) == obj.methods[CHOOSE i \in callable : obj.methods[i].name = n]
    IN MapSeq(SortNames({obj.methods[i].name : i \in callable}, MethodNames), byName)

\* types.Interface.NumMethods / Method(i): the methods ordered by identifier
InterfaceMethods(obj) ==
    LET byName(n) == obj.methods[CHOOSE i \in 1..Len(obj.methods) :
                                    obj.methods[i].name = n]
    IN MapSeq(SortNames({obj.methods[i].name : i \in 1..Len(obj.methods)},
                        MethodNames), byName)

\* types.Identical on two signatures: parameter and result types agree
\* position by position; parameter names do not matter
IdenticalSignature(f, g) ==
    /\ MapSeq(f.params, LAMBDA v : v.type) = MapSeq(g.params, LAMBDA v : v.type)
    /\ f.results = g.results

\* types.Implements(T, iface), T given by its method set
Implements(methodSet, ifaceObj) ==
    \A i \in 1..Len(ifaceObj.methods) :
        \E j \in 1..Len(methodSet) :
            /\ methodSet[j].name = ifaceObj.methods[i].name
            /\ IdenticalSignature(methodSet[j], ifaceObj.methods[i])

-----------------------------------------------------------------------------
(* goanalyzer *)

makeRelativePath(path) ==
    IF Len(path) > 2 THEN SubSeq(path, Len(path) - 2, Len(path)) ELSE path

PositionOf(obj, line) == [Path |-> makeRelativePath(obj.file), Line |-> line]

extractParams(signature) ==
    MapSeq(signature.params, LAMBDA v : [Name |-> v.name, Type |-> v.type])

extractReturnTypes(signature) == signature.results

\* the MethodInfo built for a method of the type obj
NewMethodInfo(obj, method) ==
    [Name |-> method.name,
     Position |-> PositionOf(obj, obj.line + method.offset),
     Parameters |-> extractParams(method),
     ReturnTypes |-> extractReturnTypes(method),
     ImplementedFrom |-> <<>>]

processInterface(obj) ==
    IF obj.kind # "interface" THEN Nil
    ELSE [Name |-> obj.name,
          Position |-> PositionOf(obj, obj.line),
          Methods |-> MapSeq(InterfaceMethods(obj), LAMBDA m : NewMethodInfo(obj, m))]

\* processMethodSet without the "Skip if method already exists" check
RECURSIVE processMethodSetNoSkip(_, _, _, _)
processMethodSetNoSkip(obj, methods, ms, i) ==
    IF i > Len(ms) THEN methods
    ELSE processMethodSetNoSkip(obj, Append(methods, NewMethodInfo(obj, ms[i])),
                                ms, i + 1)

\* the closure processMethodSet of processStruct, from entry i of ms on
RECURSIVE processMethodSet(_, _, _, _)
processMethodSet(obj, methods, ms, i) ==
    IF i > Len(ms) THEN methods
    ELSE LET methodExists == \E k \in 1..Len(methods) : methods[k].Name = ms[i].name
         IN IF methodExists
            THEN processMethodSet(obj, methods, ms, i + 1)
            ELSE processMethodSet(obj, Append(methods, NewMethodInfo(obj, ms[i])),
                                  ms, i + 1)

\* MergedMethods with the pointer-receiver method set merged first
MergedMethodsPointerFirst(obj) ==
    processMethodSet(obj,
                     processMethodSet(obj, <<>>, MethodSet(obj, TRUE), 1),
                     MethodSet(obj, FALSE), 1)

\* the value-receiver method set merged first, then the pointer-receiver one
MergedMethods(obj) ==
    processMethodSet(obj,
                     processMethodSet(obj, <<>>, MethodSet(obj, FALSE), 1),
                     MethodSet(obj, TRUE), 1)

\* "Update method implementation info": every method of the struct gets one
\* entry per method of iface that has its name
UpdateImplementedFrom(methods, iface) ==
    MapSeq(methods, LAMBDA method :
        [method EXCEPT !.ImplementedFrom =
            @ \o MapSeq(SelectSeq(iface.Methods,
                                  LAMBDA ifaceMethod : method.Name = ifaceMethod.Name),
                        LAMBDA ifaceMethod :
                            [Name |-> iface.Name \o "." \o ifaceMethod.Name,
                             Position |-> ifaceMethod.Position])])

\* "Check interface implementations", from entry i of allInterfaces on
RECURSIVE CheckImplementations(_, _, _, _, _)
CheckImplementations(info, obj, pkg, allInterfaces, i) ==
    IF i > Len(allInterfaces) THEN info
    ELSE LET iface == allInterfaces[i]
             ifaceObj == Lookup(pkg.Scope, iface.Name)
         IN IF ifaceObj = Nil \/ ifaceObj.kind # "interface"
            THEN CheckImplementations(info, obj, pkg, allInterfaces, i + 1)
            ELSE IF Implements(MethodSet(obj, FALSE), ifaceObj)
                    \/ Implements(MethodSet(obj, TRUE), ifaceObj)
                 THEN CheckImplementations(
                        [info EXCEPT
                           !.ImplementedInterfaces =
                               Append(@, [Name |-> iface.Name,
                                          Position |-> iface.Position]),
                           !.Methods = UpdateImplementedFrom(@, iface)],
                        obj, pkg, allInterfaces, i + 1)
                 ELSE CheckImplementations(info, obj, pkg, allInterfaces, i + 1)

processStruct(obj, pkg, allInterfaces) ==
    IF obj.kind # "struct" THEN Nil
    ELSE CheckImplementations(
            [Name |-> obj.name,
             Position |-> PositionOf(obj, obj.line),
             Methods |-> MergedMethods(obj),
             EmbeddedTypes |-> MapSeq(SelectSeq(obj.fields, LAMBDA f : f.anonymous),
                                      LAMBDA f : f.type),
             ImplementedInterfaces |-> <<>>],
            obj, pkg, allInterfaces, 1)

\* json.MarshalIndent(result) followed by JSON.parse: the document with the
\* field names of the json tags
MarshalPosition(p) == [path |-> p.Path, line |-> p.Line]

MarshalDeclaration(d) == [name |-> d.Name, position |-> MarshalPosition(d.Position)]

\* MarshalMethod with implementedFrom tagged omitempty: the field is left
\* out when the list is empty
MarshalMethodOmitEmpty(m) ==
    IF m.ImplementedFrom = <<>>
    THEN [name |-> m.Name,
          position |-> MarshalPosition(m.Position),
          parameters |-> MapSeq(m.Parameters, LAMBDA p : [name |-> p.Name, type |-> p.Type]),
          returnTypes |-> m.ReturnTypes]
    ELSE [name |-> m.Name,
          position |-> MarshalPosition(m.Position),
          parameters |-> MapSeq(m.Parameters, LAMBDA p : [name |-> p.Name, type |-> p.Type]),
          returnTypes |-> m.ReturnTypes,
          implementedFrom |-> MapSeq(m.ImplementedFrom, MarshalDeclaration)]

MarshalMethod(m) ==
    [name |-> m.Name,
     position |-> MarshalPosition(m.Position),
     parameters |-> MapSeq(m.Parameters, LAMBDA p : [name |-> p.Name, type |-> p.Type]),
     returnTypes |-> m.ReturnTypes,
     implementedFrom |-> MapSeq(m.ImplementedFrom, MarshalDeclaration)]

MarshalInterface(i) ==
    [name |-> i.Name,
     position |-> MarshalPosition(i.Position),
     methods |-> MapSeq(i.Methods, MarshalMethod)]

MarshalStruct(s) ==
    [name |-> s.Name,
     position |-> MarshalPosition(s.Position),
     methods |-> MapSeq(s.Methods, MarshalMethod),
     embeddedTypes |-> s.EmbeddedTypes,
     implementedInterfaces |-> MapSeq(s.ImplementedInterfaces, MarshalDeclaration)]

Marshal(r) ==
    [interfaces |-> MapSeq(r.Interfaces, MarshalInterface),
     structs |-> MapSeq(r.Structs, MarshalStruct)]

-----------------------------------------------------------------------------
(* goAnalyzer.ts *)

\* IsTypeParameter with the pattern left unanchored and the length not checked
IsTypeParameterUnanchored(type) == \E i \in 1..Len(type) : type[i] \in UpperCase

\* interfaceParam.type.length === 1 && interfaceParam.type.match(/^[A-Z]$/)
IsTypeParameter(type) == Len(type) = 1 /\ type[1] \in UpperCase

\* the loop over the parameters with a type parameter on either side taken
\* as matching any type
RECURSIVE ParametersLoopEitherSide(_, _, _)
ParametersLoopEitherSide(sm, im, i) ==
    IF i > Len(sm.parameters) THEN TRUE
    ELSE IF IsTypeParameter(im.parameters[i].type)
            \/ IsTypeParameter(sm.parameters[i].type)
         THEN ParametersLoopEitherSide(sm, im, i + 1)
    ELSE IF sm.parameters[i].type # im.parameters[i].type THEN FALSE
    ELSE ParametersLoopEitherSide(sm, im, i + 1)

\* the loop over the parameters, from index i on; TRUE when it runs to its end
RECURSIVE ParametersLoop(_, _, _)
ParametersLoop(sm, im, i) ==
    IF i > Len(sm.parameters) THEN TRUE
    ELSE IF IsTypeParameter(im.parameters[i].type) THEN ParametersLoop(sm, im, i + 1)
    ELSE IF sm.parameters[i].type # im.parameters[i].type THEN FALSE
    ELSE ParametersLoop(sm, im, i + 1)

\* the loop over the return types, from index i on
RECURSIVE ReturnTypesLoop(_, _, _)
ReturnTypesLoop(sm, im, i) ==
    IF i > Len(sm.returnTypes) THEN TRUE
    ELSE IF IsTypeParameter(im.returnTypes[i]) THEN ReturnTypesLoop(sm, im, i + 1)
    ELSE IF sm.returnTypes[i] # im.returnTypes[i] THEN FALSE
    ELSE ReturnTypesLoop(sm, im, i + 1)

methodsMatch(sm, im) ==
    IF sm.name # im.name THEN FALSE
    ELSE IF Len(sm.parameters) # Len(im.parameters) THEN FALSE
    ELSE IF Len(sm.returnTypes) # Len(im.returnTypes) THEN FALSE
    ELSE IF ~ParametersLoop(sm, im, 1) THEN FALSE
    ELSE ReturnTypesLoop(sm, im, 1)

\* Array.prototype.find: the index of the first element satisfying Test, 0 if none
Find(s, Test(_)) ==
    IF \E i \in 1..Len(s) : Test(s[i])
    THEN CHOOSE i \in 1..Len(s) : Test(s[i]) /\ \A j \in 1..(i - 1) : ~Test(s[j])
    ELSE 0

\* the loop over iface.methods, from index i on
RECURSIVE ImplementsLoop(_, _, _)
ImplementsLoop(struct, iface, i) ==
    IF i > Len(iface.methods) THEN TRUE
    ELSE IF Find(struct.methods,
                 LAMBDA structMethod_ : methodsMatch(structMethod_, iface.methods[i])) = 0
         THEN FALSE
         ELSE ImplementsLoop(struct, iface, i + 1)

\* implementsInterface returning true as soon as one interface method is matched
implementsInterfaceAnyMethod(struct, iface) ==
    \E i \in 1..Len(iface.methods) :
        Find(struct.methods,
             LAMBDA structMethod_ : methodsMatch(structMethod_, iface.methods[i])) # 0

implementsInterface(struct, iface) == ImplementsLoop(struct, iface, 1)

\* LinkMethod that records nothing
LinkMethodNever(method, iface) == method

\* "Update method implementation information" for one method of a struct
\* that implements iface
LinkMethod(method, iface) ==
    LET k == Find(iface.methods, LAMBDA im : methodsMatch(method, im))
        before == IF "implementedFrom" \in DOMAIN method
                  THEN method.implementedFrom ELSE <<>>
    IN IF k = 0 THEN method
       ELSE [f \in DOMAIN method \cup {"implementedFrom"} |->
               IF f = "implementedFrom"
               THEN Append(before,
                           [name |-> iface.name \o "." \o iface.methods[k].name,
                            position |-> iface.position])
               ELSE method[f]]

\* the loop over result.interfaces for one struct, from index i on
RECURSIVE CheckEachInterface(_, _, _)
CheckEachInterface(struct, interfaces, i) ==
    IF i > Len(interfaces) THEN struct
    ELSE IF implementsInterface(struct, interfaces[i])
         THEN CheckEachInterface(
                [struct EXCEPT
                   !.implementedInterfaces = Append(@, interfaces[i]),
                   !.methods = MapSeq(@, LAMBDA method : LinkMethod(method, interfaces[i]))],
                interfaces, i + 1)
         ELSE CheckEachInterface(struct, interfaces, i + 1)

\* "Post-process the analysis results"
PostProcess(r) ==
    [r EXCEPT !.structs =
        MapSeq(@, LAMBDA struct :
            CheckEachInterface([struct EXCEPT !.implementedInterfaces = <<>>],
                               r.interfaces, 1))]

\* !stdout.trim(): no text was collected, or white space only
IsBlank(out) ==
    \/ out = <<>>
    \/ "text" \in DOMAIN out[1] /\ out[1].text \in {"", " ", "\n"}

\* JSON.parse(stdout): the type of the value (SyntaxError when it throws) and
\* the fields of it that are arrays; the value itself is the document
JSONParse(text) ==
    IF "text" \notin DOMAIN text
    THEN [type |-> "object", arrays |-> {"interfaces", "structs"}, value |-> text]
    ELSE CASE text.text = "null" -> [type |-> "null", arrays |-> {}, value |-> text]
           [] text.text = "7" -> [type |-> "number", arrays |-> {}, value |-> text]
           [] text.text \in {"[]", "{}"} ->
                [type |-> "object", arrays |-> {}, value |-> text]
           [] text.text \in {"{\"interfaces\": []}",
                             "{\"interfaces\": [], \"structs\": null}"} ->
                [type |-> "object", arrays |-> {"interfaces"}, value |-> text]
           [] OTHER -> [type |-> "SyntaxError", arrays |-> {}, value |-> text]

\* "Validate the result structure", with an array that is absent or null
\* taken to be empty
ValidatedDefaultingArrays(p) ==
    IF p.type # "object"
    THEN [error |-> "Invalid analyzer output: not an object", value |-> p.value]
    ELSE IF {"interfaces", "structs"} \subseteq p.arrays
         THEN [error |-> "", value |-> p.value]
         ELSE [error |-> "", value |-> [interfaces |-> <<>>, structs |-> <<>>]]

\* "Validate the result structure": the message of the error to reject with,
\* "" when the value passes, and the value
Validated(p) ==
    IF p.type # "object"
    THEN [error |-> "Invalid analyzer output: not an object", value |-> p.value]
    ELSE IF ~({"interfaces", "structs"} \subseteq p.arrays)
         THEN [error |-> "Invalid analyzer output: missing interfaces or structs arrays",
               value |-> p.value]
         ELSE [error |-> "", value |-> p.value]

Rejected(message, value) ==
    [settled |-> "rejected", rejection |-> message, result |-> Nil, parsed |-> value]

\* the close handler taking blank output to be the empty result
CloseHandlerBlankAsEmpty(code, out) ==
    IF code # 0 THEN Rejected("Go analyzer failed with code", Nil)
    ELSE IF IsBlank(out)
         THEN [settled |-> "resolved", rejection |-> "",
               result |-> [interfaces |-> <<>>, structs |-> <<>>],
               parsed |-> [interfaces |-> <<>>, structs |-> <<>>]]
    ELSE LET p == JSONParse(out[1])
         IN IF p.type = "SyntaxError"
            THEN Rejected("Failed to parse analyzer output", Nil)
            ELSE IF Validated(p).error # ""
                 THEN Rejected(Validated(p).error, Validated(p).value)
                 ELSE [settled |-> "resolved", rejection |-> "",
                       result |-> PostProcess(Validated(p).value),
                       parsed |-> PostProcess(Validated(p).value)]

\* the close handler of the analyzer process: how it settles the promise and
\* the parsed value it leaves
CloseHandler(code, out) ==
    IF code # 0 THEN Rejected("Go analyzer failed with code", Nil)
    ELSE IF IsBlank(out) THEN Rejected("Analyzer produced no output", Nil)
    ELSE LET p == JSONParse(out[1])
         IN IF p.type = "SyntaxError"
            THEN Rejected("Failed to parse analyzer output", Nil)
            ELSE IF Validated(p).error # ""
                 THEN Rejected(Validated(p).error, Validated(p).value)
                 ELSE [settled |-> "resolved", rejection |-> "",
                       result |-> PostProcess(Validated(p).value),
                       parsed |-> PostProcess(Validated(p).value)]

-----------------------------------------------------------------------------
(* The analyzer process and the analyzeWorkspace call that runs it *)

EmptyResult == [Interfaces |-> <<>>, Structs |-> <<>>]

\* the body of the loop over scope.Names(): the switch on the object's
\* underlying type, applied to the result r collected so far
VisitObject(obj, pkg, r) ==
    IF obj.kind = "interface"
    THEN IF Len(obj.methods) > 0 /\ processInterface(obj) # Nil
         THEN [r EXCEPT !.Interfaces = Append(@, processInterface(obj))]
         ELSE r
    ELSE IF processStruct(obj, pkg, r.Interfaces) # Nil
         THEN [r EXCEPT !.Structs = Append(@, processStruct(obj, pkg, r.Interfaces))]
         ELSE r

\* the two loops of analyze run from package p, name n on, over the packages ws
RECURSIVE AnalyzeFrom(_, _, _, _)
AnalyzeFrom(ws, p, n, r) ==
    IF p > Len(ws) THEN r
    ELSE IF ws[p].Errors THEN AnalyzeFrom(ws, p + 1, 1, r)
    ELSE IF n > Len(Names(ws[p].Scope)) THEN AnalyzeFrom(ws, p + 1, 1, r)
    ELSE AnalyzeFrom(ws, p, n + 1,
                     VisitObject(ws[p].Scope[Names(ws[p].Scope)[n]], ws[p], r))

\* what analyzeWorkspace resolves with when the analyzer ran over the packages ws
ResultFor(ws) == PostProcess(Marshal(AnalyzeFrom(ws, 1, 1, EmptyResult)))

\* the workspacePath handed to analyzeWorkspace when a folder is open
WorkspacePath == "/home/ws"

\* what the program in the analyzer directory prints when it is not the
\* extractor of this repository: nothing, blank text, text that is not JSON,
\* JSON that is not an object, objects without the two arrays
OtherOutputs == {"", "\n", "oops", "null", "7", "[]", "{}",
                 "{\"interfaces\": []}",
                 "{\"interfaces\": [], \"structs\": null}"}

Running == spawned /\ exitCode = -1

\* the code the close event carries when the process could not be spawned:
\* the negated errno of the failure, here that of ENOENT
SpawnErrorCode == -2

\* resolve and reject of the promise of analyzeWorkspace: the first call
\* settles the promise, a later call changes nothing.  The parsed value is a
\* local of the close handler and is left as the handler left it
Settle(outcome) ==
    IF settled = "pending" THEN outcome
    ELSE [settled |-> settled, rejection |-> rejection, result |-> result,
          parsed |-> outcome.parsed]

IdleMatch == structMethod = Nil /\ interfaceMethod = Nil /\ matched = <<>>

IdleConc == calls = <<>> /\ goMod = FALSE /\ sourceGoMod = FALSE

IdleCache ==
    /\ cache = 0
    /\ lastAnalysisTime = 0
    /\ now = 0
    /\ heap = <<>>
    /\ callers = <<>>
    /\ handed = <<>>

\* getStruct is not called
IdleLookup == structName = "" /\ getStructPc = "idle" /\ returned = Nil

\* no editor is decorated
IdleDecorate ==
    /\ analysisData = Undefined
    /\ document = <<>>
    /\ decorations = <<>>
    /\ decorated = "no"

\* no selection changes
IdleClick == lastClickPosition = Undefined /\ navigations = <<>>

IdleExtension == IdleLookup /\ IdleDecorate /\ IdleClick

\* no analyzeWorkspace call of the single-call specification is made
IdleCall ==
    /\ workspaceFolders = TRUE
    /\ workspacePath = WorkspacePath
    /\ program = "goanalyzer"
    /\ pkgs = <<>>
    /\ pkgIdx = 1
    /\ nameIdx = 1
    /\ goResult = EmptyResult
    /\ spawned = FALSE
    /\ stdout = <<>>
    /\ exitCode = -1
    /\ closed = FALSE
    /\ settled = "pending"
    /\ result = Nil
    /\ rejection = ""
    /\ parsed = Nil

InitCall ==
    /\ \/ /\ workspaceFolders = TRUE
          /\ workspacePath = WorkspacePath
          /\ \/ program = "goanalyzer" /\ pkgs \in Workspaces \cup {<<>>}
             \/ program \in OtherOutputs /\ pkgs = <<>>
       \/ /\ workspaceFolders \in BOOLEAN
          /\ workspacePath \in {"", WorkspacePath}
          /\ ~workspaceFolders \/ workspacePath = ""
          /\ program = "goanalyzer"
          /\ pkgs = <<>>
    /\ pkgIdx = 1
    /\ nameIdx = 1
    /\ goResult = EmptyResult
    /\ spawned = FALSE
    /\ stdout = <<>>
    /\ exitCode = -1
    /\ closed = FALSE
    /\ settled = "pending"
    /\ result = Nil
    /\ rejection = ""
    /\ parsed = Nil

Init ==
    /\ InitCall
    /\ IdleMatch
    /\ IdleConc
    /\ IdleCache
    /\ IdleExtension

elsewhere == <<matchVars, concVars, cacheVars, extensionVars>>

\* "Ensure the path exists"
NoWorkspaceFolder ==
    /\ settled = "pending" /\ ~spawned
    /\ ~workspaceFolders \/ workspacePath = ""
    /\ settled' = "rejected"
    /\ rejection' = "No workspace folder found"
    /\ UNCHANGED <<inputVars, extractorVars, spawned, stdout, exitCode, closed, result,
                   parsed, elsewhere>>

\* findGoPath or setupGoModule throws: the catch of analyzeWorkspace rejects
\* with that error
SetupFails ==
    /\ settled = "pending" /\ ~spawned
    /\ workspaceFolders /\ workspacePath # ""
    /\ settled' = "rejected"
    /\ rejection' = "Go installation not found"
    /\ UNCHANGED <<inputVars, extractorVars, spawned, stdout, exitCode, closed, result,
                   parsed, elsewhere>>

\* cp.spawn(goPath, ['run', '.', '-path', normalizedPath])
Spawn ==
    /\ settled = "pending" /\ ~spawned
    /\ workspaceFolders /\ workspacePath # ""
    /\ spawned' = TRUE
    /\ UNCHANGED <<inputVars, extractorVars, stdout, exitCode, closed, settled, result,
                   rejection, parsed, elsewhere>>

\* the extractor runs and is inside analyze
Analyzing == Running /\ program = "goanalyzer"

\* the object the loops of analyze are at
AtObjectIgnoringErrors ==
    /\ Analyzing
    /\ pkgIdx <= Len(pkgs)
    /\ nameIdx <= Len(Names(pkgs[pkgIdx].Scope))

AtObject ==
    /\ Analyzing
    /\ pkgIdx <= Len(pkgs)
    /\ ~pkgs[pkgIdx].Errors
    /\ nameIdx <= Len(Names(pkgs[pkgIdx].Scope))

CurrentObject == pkgs[pkgIdx].Scope[Names(pkgs[pkgIdx].Scope)[nameIdx]]

\* packages.Load returns an error and no packages: analyze returns the
\* empty result
LoadError ==
    /\ Analyzing /\ pkgIdx = 1 /\ nameIdx = 1 /\ goResult = EmptyResult
    /\ pkgs # <<>>
    /\ pkgs' = <<>>
    /\ UNCHANGED <<inputVars, pkgIdx, nameIdx, goResult, callVars, elsewhere>>

\* a package with errors is logged and skipped
SkipPackage ==
    /\ Analyzing /\ pkgIdx <= Len(pkgs)
    /\ pkgs[pkgIdx].Errors
    /\ pkgIdx' = pkgIdx + 1
    /\ nameIdx' = 1
    /\ UNCHANGED <<inputVars, pkgs, goResult, callVars, elsewhere>>

\* the names of the package's scope are exhausted
EndPackage ==
    /\ Analyzing /\ pkgIdx <= Len(pkgs)
    /\ ~pkgs[pkgIdx].Errors
    /\ nameIdx > Len(Names(pkgs[pkgIdx].Scope))
    /\ pkgIdx' = pkgIdx + 1
    /\ nameIdx' = 1
    /\ UNCHANGED <<inputVars, pkgs, goResult, callVars, elsewhere>>

\* case *types.Interface
VisitInterface ==
    /\ AtObject
    /\ CurrentObject.kind = "interface"
    /\ goResult' = VisitObject(CurrentObject, pkgs[pkgIdx], goResult)
    /\ nameIdx' = nameIdx + 1
    /\ UNCHANGED <<inputVars, pkgs, pkgIdx, callVars, elsewhere>>

\* case *types.Struct
VisitStruct ==
    /\ AtObject
    /\ CurrentObject.kind = "struct"
    /\ goResult' = VisitObject(CurrentObject, pkgs[pkgIdx], goResult)
    /\ nameIdx' = nameIdx + 1
    /\ UNCHANGED <<inputVars, pkgs, pkgIdx, callVars, elsewhere>>

\* main: the result is marshalled and printed, the process exits with 0
PrintResult ==
    /\ Analyzing
    /\ pkgIdx > Len(pkgs)
    /\ stdout' = <<Marshal(goResult)>>
    /\ exitCode' = 0
    /\ UNCHANGED <<inputVars, extractorVars, spawned, closed, settled, result, rejection,
                   parsed, elsewhere>>

\* another program prints its text and exits with 0
PrintOther ==
    /\ Running
    /\ program # "goanalyzer"
    /\ stdout' = IF program = "" THEN <<>> ELSE <<[text |-> program]>>
    /\ exitCode' = 0
    /\ UNCHANGED <<inputVars, extractorVars, spawned, closed, settled, result, rejection,
                   parsed, elsewhere>>

\* the process ends with a non-zero exit code and has printed nothing: the
\* program could not be run or main failed before analyze, or marshalling
\* failed after it
ProcessFails ==
    /\ Running
    /\ \/ pkgIdx = 1 /\ nameIdx = 1 /\ goResult = EmptyResult
       \/ pkgIdx > Len(pkgs)
    /\ exitCode' = 1
    /\ UNCHANGED <<inputVars, extractorVars, spawned, stdout, closed, settled, result,
                   rejection, parsed, elsewhere>>

\* process.on('error', ...): the analyzer process could not be started.  The
\* handler rejects; the process never ran, and it is closed with the
\* negative code of the spawn error
OnError ==
    /\ Running
    /\ pkgIdx = 1 /\ nameIdx = 1 /\ goResult = EmptyResult
    /\ exitCode' = SpawnErrorCode
    /\ LET outcome == Settle(Rejected("Failed to start analyzer", Nil))
       IN /\ settled' = outcome.settled
          /\ result' = outcome.result
          /\ rejection' = outcome.rejection
          /\ parsed' = outcome.parsed
    /\ UNCHANGED <<inputVars, extractorVars, spawned, stdout, closed, elsewhere>>

\* process.on('close', ...)
OnClose ==
    /\ spawned /\ ~Running
    /\ ~closed
    /\ closed' = TRUE
    /\ LET outcome == Settle(CloseHandler(exitCode, stdout))
       IN /\ settled' = outcome.settled
          /\ result' = outcome.result
          /\ rejection' = outcome.rejection
          /\ parsed' = outcome.parsed
    /\ UNCHANGED <<inputVars, extractorVars, spawned, stdout, exitCode, elsewhere>>

Next ==
    \/ NoWorkspaceFolder
    \/ SetupFails
    \/ Spawn
    \/ LoadError
    \/ SkipPackage
    \/ EndPackage
    \/ VisitInterface
    \/ VisitStruct
    \/ PrintResult
    \/ PrintOther
    \/ ProcessFails
    \/ OnError
    \/ OnClose

Spec == Init /\ [][Next]_vars

-----------------------------------------------------------------------------
(* methodsMatch on its own, over the signatures of at most MaxSlots          *)
(* parameters and return types                                               *)

MatchTypes == {tK, tk, tKV, tInt}

SeqsUpTo(S, n) == UNION {[1..k -> S] : k \in 0..n}

Signatures(names, paramNames) ==
    {sig \in [name : names,
              parameters : SeqsUpTo([name : paramNames, type : MatchTypes], MaxSlots),
              returnTypes : SeqsUpTo(MatchTypes, MaxSlots)] :
        Len(sig.parameters) + Len(sig.returnTypes) <= MaxSlots}

InitMatch ==
    /\ structMethod \in Signatures({"Get"}, {"key"})
    /\ interfaceMethod \in Signatures({"Get", "Name"}, {"key", "k"})
    /\ matched = <<>>
    /\ IdleCall
    /\ IdleConc
    /\ IdleCache
    /\ IdleExtension

CallMethodsMatch ==
    /\ matched = <<>>
    /\ matched' = <<methodsMatch(structMethod, interfaceMethod)>>
    /\ UNCHANGED <<inputVars, extractorVars, callVars, structMethod, interfaceMethod,
                   concVars, cacheVars, extensionVars>>

NextMatch == CallMethodsMatch

SpecMatch == InitMatch /\ [][NextMatch]_vars

-----------------------------------------------------------------------------
(* Two analyzeWorkspace calls of one GoAnalyzerService running concurrently. *)
(* Both work in the analyzer directory this.analyzerPath; the buffer stdout  *)
(* and the promise are locals of each call.  A call yields at every await    *)
(* and at every process event, and the other call may run in between.        *)

\* a workspace with the declarations decl and no package errors
Workspace(decl) == [p \in 1..Len(PkgPaths) |-> Package(p, decl, {})]

\* the workspaces the concurrent calls are made for
ConcWorkspaces == <<
    Workspace((<<1, "Shape">> :> iShape) @@ (<<2, "Square">> :> sCircle)),
    Workspace((<<2, "Shape">> :> iNamed) @@ (<<2, "Square">> :> sPerson)),
    Workspace([sl \in {} |-> iEmpty]) >>

Callers == {1, 2}

\* a call at the entry of analyzeWorkspace for the workspace w; "unused" when
\* the call is never made
NewCall(w, pc) ==
    [workspace |-> w, pc |-> pc, stdout |-> <<>>, settled |-> "pending",
     result |-> Nil, rejection |-> ""]

InitConc ==
    /\ goMod \in BOOLEAN
    /\ sourceGoMod \in BOOLEAN
    /\ \E w1, w2 \in 1..Len(ConcWorkspaces) :
         /\ w1 # w2
         /\ \E pc2 \in {"entry", "unused"} :
              calls = <<NewCall(w1, "entry"), NewCall(w2, pc2)>>
    /\ IdleCall
    /\ IdleMatch
    /\ IdleCache
    /\ IdleExtension

notConc == <<inputVars, extractorVars, callVars, matchVars, cacheVars, extensionVars>>

\* the workspace check passes, Go is found, the analyzer directory exists
Enter(c) ==
    /\ calls[c].pc = "entry"
    /\ calls' = [calls EXCEPT ![c].pc = "copy"]
    /\ UNCHANGED <<goMod, sourceGoMod, notConc>>

\* "Copy Go files to analyzer directory": the .go files and go.mod of the
\* source directory, when it has them
CopyFiles(c) ==
    /\ calls[c].pc = "copy"
    /\ goMod' = (goMod \/ sourceGoMod)
    /\ calls' = [calls EXCEPT ![c].pc = "setup"]
    /\ UNCHANGED <<sourceGoMod, notConc>>

\* setupGoModule: fs.existsSync(go.mod) decides whether `go mod init` is spawned
CheckGoMod(c) ==
    /\ calls[c].pc = "setup"
    /\ calls' = [calls EXCEPT ![c].pc = IF goMod THEN "goget" ELSE "modinit"]
    /\ UNCHANGED <<goMod, sourceGoMod, notConc>>

\* `go mod init goanalyzer` closes: it writes go.mod and exits with 0, or
\* finds a go.mod and exits with 1, and the call rejects
ModInitCloses(c) ==
    /\ calls[c].pc = "modinit"
    /\ IF goMod
       THEN /\ calls' = [calls EXCEPT ![c].pc = "done",
                                      ![c].settled = "rejected",
                                      ![c].rejection = "go mod init failed with code 1"]
            /\ goMod' = goMod
       ELSE /\ calls' = [calls EXCEPT ![c].pc = "goget"]
            /\ goMod' = TRUE
    /\ UNCHANGED <<sourceGoMod, notConc>>

\* `go get golang.org/x/tools/go/packages@latest` closes with 0
GoGetCloses(c) ==
    /\ calls[c].pc = "goget"
    /\ calls' = [calls EXCEPT ![c].pc = "tidy"]
    /\ UNCHANGED <<goMod, sourceGoMod, notConc>>

\* `go mod tidy` closes with 0 and the analyzer process is spawned
TidyCloses(c) ==
    /\ calls[c].pc = "tidy"
    /\ calls' = [calls EXCEPT ![c].pc = "run"]
    /\ UNCHANGED <<goMod, sourceGoMod, notConc>>

\* process.stdout.on('data'): the result of the call's workspace is appended
\* to the call's stdout
AnalyzerPrints(c) ==
    /\ calls[c].pc = "run"
    /\ calls' = [calls EXCEPT
                   ![c].pc = "printed",
                   ![c].stdout = <<Marshal(AnalyzeFrom(ConcWorkspaces[calls[c].workspace],
                                                       1, 1, EmptyResult))>>]
    /\ UNCHANGED <<goMod, sourceGoMod, notConc>>

\* process.on('close') with code 0
AnalyzerCloses(c) ==
    /\ calls[c].pc = "printed"
    /\ LET outcome == CloseHandler(0, calls[c].stdout)
       IN calls' = [calls EXCEPT ![c].pc = "done",
                                 ![c].settled = outcome.settled,
                                 ![c].result = outcome.result,
                                 ![c].rejection = outcome.rejection]
    /\ UNCHANGED <<goMod, sourceGoMod, notConc>>

NextConc ==
    \E c \in Callers :
        \/ Enter(c)
        \/ CopyFiles(c)
        \/ CheckGoMod(c)
        \/ ModInitCloses(c)
        \/ GoGetCloses(c)
        \/ TidyCloses(c)
        \/ AnalyzerPrints(c)
        \/ AnalyzerCloses(c)

SpecConc == InitConc /\ [][NextConc]_vars

-----------------------------------------------------------------------------
(* AnalysisCacheManager.  A result is an object: analyzeWorkspace allocates  *)
(* it, cache and the callers hold references to it, and heap maps a          *)
(* reference to the object's present value.                                  *)

\* the age, in milliseconds, from which the cache is no longer used
CacheTTL == 5000

\* the largest number of getAnalysisData calls
MaxCalls == 2

\* the readings of Date.now(), relative to the first one
Instants == {0, CacheTTL - 1, CacheTTL}

\* the workspace getAnalysisData is called for
CacheWorkspace == ConcWorkspaces[1]

Idle == [pc |-> "idle", currentTime |-> 0, forceRefresh |-> FALSE, stale |-> FALSE,
         invalidated |-> FALSE]

InitCache ==
    /\ cache = 0
    /\ lastAnalysisTime = 0
    /\ now = 0
    /\ heap = <<>>
    /\ callers = [c \in Callers |-> Idle]
    /\ handed = <<>>
    /\ IdleCall
    /\ IdleMatch
    /\ IdleConc
    /\ IdleExtension

notCache == <<inputVars, extractorVars, callVars, matchVars, concVars, extensionVars>>

\* the calls made so far: returned, or waiting for their analysis
CallsMade == Len(handed) + Cardinality({c \in Callers : callers[c].pc = "analyzing"})

\* time passes
Tick ==
    /\ \E t \in Instants : t > now /\ now' = t
    /\ UNCHANGED <<cache, lastAnalysisTime, heap, callers, handed, notCache>>

\* the condition of getAnalysisData with the age CacheTTL still served
CacheIsFreshInclusive(forceRefresh, currentTime) ==
    ~forceRefresh /\ cache # 0 /\ (currentTime - lastAnalysisTime) <= CacheTTL

\* !forceRefresh && this.cache && (currentTime - this.lastAnalysisTime) < 5000
CacheIsFresh(forceRefresh, currentTime) ==
    ~forceRefresh /\ cache # 0 /\ (currentTime - lastAnalysisTime) < CacheTTL

\* getAnalysisData up to its return of this.cache, or up to its await
GetAnalysisData(c, forceRefresh) ==
    /\ callers[c].pc = "idle"
    /\ CallsMade < MaxCalls
    /\ LET currentTime == now
       IN IF CacheIsFresh(forceRefresh, currentTime)
          THEN /\ handed' = Append(handed,
                                   [caller |-> c, ref |-> cache, fromCache |-> TRUE,
                                    forceRefresh |-> forceRefresh, stale |-> FALSE,
                                    time |-> now, seen |-> heap[cache].value])
               /\ callers' = callers
          ELSE /\ callers' = [callers EXCEPT ![c] =
                                 [pc |-> "analyzing", currentTime |-> currentTime,
                                  forceRefresh |-> forceRefresh,
                                  stale |-> (~forceRefresh /\ cache # 0),
                                  invalidated |-> FALSE]]
               /\ handed' = handed
    /\ UNCHANGED <<cache, lastAnalysisTime, now, heap, notCache>>

\* analyzeWorkspace resolves with a new object, the result for the
\* workspace: getAnalysisData stores it and returns it
AnalysisResolves(c) ==
    /\ callers[c].pc = "analyzing"
    /\ LET value == ResultFor(CacheWorkspace)
           ref == Len(heap) + 1
       IN /\ heap' = Append(heap, [value |-> value, produced |-> value, obtained |-> now])
          /\ cache' = ref
          /\ lastAnalysisTime' = callers[c].currentTime
          /\ handed' = Append(handed,
                              [caller |-> c, ref |-> ref, fromCache |-> FALSE,
                               forceRefresh |-> callers[c].forceRefresh,
                               stale |-> callers[c].stale,
                               time |-> now, seen |-> value])
    /\ callers' = [callers EXCEPT ![c] = Idle]
    /\ UNCHANGED <<now, notCache>>

\* analyzeWorkspace rejects: getAnalysisData throws at its await
AnalysisRejects(c) ==
    /\ callers[c].pc = "analyzing"
    /\ callers' = [callers EXCEPT ![c] = Idle]
    /\ UNCHANGED <<cache, lastAnalysisTime, now, heap, handed, notCache>>

\* invalidateCache; the calls waiting for their analysis at that moment are
\* marked, which the program does not do
InvalidateCache ==
    /\ \/ cache # 0
       \/ \E c \in Callers : callers[c].pc = "analyzing" /\ ~callers[c].invalidated
    /\ cache' = 0
    /\ lastAnalysisTime' = 0
    /\ callers' = [c \in Callers |->
                     IF callers[c].pc = "analyzing"
                     THEN [callers[c] EXCEPT !.invalidated = TRUE]
                     ELSE callers[c]]
    /\ UNCHANGED <<now, heap, handed, notCache>>

\* struct.implementedInterfaces = [] on every struct of r
EmptyImplementedInterfaces(r) ==
    [r EXCEPT !.structs =
        MapSeq(@, LAMBDA struct : [struct EXCEPT !.implementedInterfaces = <<>>])]

\* a caller empties the implementedInterfaces of the result it was handed
MutateResult(h) ==
    /\ heap[handed[h].ref].value # EmptyImplementedInterfaces(heap[handed[h].ref].value)
    /\ heap' = [heap EXCEPT ![handed[h].ref].value = EmptyImplementedInterfaces(@)]
    /\ UNCHANGED <<cache, lastAnalysisTime, now, callers, handed, notCache>>

NextCache ==
    \/ Tick
    \/ \E c \in Callers : \E forceRefresh \in BOOLEAN : GetAnalysisData(c, forceRefresh)
    \/ \E c \in Callers : AnalysisResolves(c)
    \/ \E c \in Callers : AnalysisRejects(c)
    \/ InvalidateCache
    \/ \E h \in 1..Len(handed) : MutateResult(h)

SpecCache == InitCache /\ [][NextCache]_vars

-----------------------------------------------------------------------------
(* Properties *)

\* analyzeWorkspace resolved: result is the final result of the run
Done == settled = "resolved"

\* the document the extractor printed, as analyzeWorkspace parsed it
Extracted == stdout[1]

TypeNameSet == {TypeNames[i] : i \in 1..Len(TypeNames)}

DeclarationOf(e) == [name |-> e.name, position |-> e.position]

HasDuplicateName(s) ==
    \E i, j \in 1..Len(s) : i # j /\ s[i].name = s[j].name

\* the packages ws with the type `old` of package p declared under the
\* identifier `new` instead, which moves it in the enumeration of the scope
Renamed(ws, p, old, new) ==
    [ws EXCEPT ![p].Scope =
        [n \in (DOMAIN ws[p].Scope \ {old}) \cup {new} |->
            IF n = new THEN Object(p, new, ws[p].Scope[old]) ELSE ws[p].Scope[n]]]

InResult(r, path, name) ==
    \E k \in 1..Len(r.structs) :
        r.structs[k].name = name /\ r.structs[k].position.path = path

\* the links of the struct `name` declared in the file `path`, in the result r
LinksOf(r, path, name) ==
    LET s == r.structs[CHOOSE k \in 1..Len(r.structs) :
                 r.structs[k].name = name /\ r.structs[k].position.path = path]
    IN [implementedInterfaces |-> MapSeq(s.implementedInterfaces, DeclarationOf),
        implementedFrom |-> MapSeq(s.methods, LAMBDA m :
                                [name |-> m.name, implementedFrom |-> m.implementedFrom])]

\* C1: order-invariance.  The place of a struct S in the enumeration is fixed
\* by its identifier; with the declarations otherwise unchanged, declaring S
\* under another free identifier of its package (so that it is enumerated
\* before, or after, an interface I) leaves the implementedInterfaces of S and
\* the implementedFrom of each method of S in the final result unchanged.
OrderInvariance ==
    Done =>
        \A p \in 1..Len(pkgs) :
            \A old \in DOMAIN pkgs[p].Scope :
                \A new \in TypeNameSet \ DOMAIN pkgs[p].Scope :
                    (/\ pkgs[p].Scope[old].kind = "struct"
                     /\ InResult(result, makeRelativePath(PkgFile[p]), old))
                    => LinksOf(result, makeRelativePath(PkgFile[p]), old)
                       = LinksOf(ResultFor(Renamed(pkgs, p, old, new)),
                                 makeRelativePath(PkgFile[p]), new)

\* C2: two-phase barrier.  Once analyze has resolved a struct, every
\* interface (with at least one method) of every package it processes is
\* already in result.Interfaces, so the list a struct is given is the final one.
TwoPhaseBarrier ==
    Len(goResult.Structs) > 0 =>
        \A p \in 1..Len(pkgs) :
            \A n \in DOMAIN pkgs[p].Scope :
                LET obj == pkgs[p].Scope[n]
                IN (/\ ~pkgs[p].Errors
                    /\ obj.kind = "interface"
                    /\ Len(obj.methods) > 0)
                   => \E k \in 1..Len(goResult.Interfaces) :
                        /\ goResult.Interfaces[k].Name = obj.name
                        /\ goResult.Interfaces[k].Position = PositionOf(obj, obj.line)

\* C3: no duplicate links.  In the final result no implementedInterfaces holds
\* two entries with the same interface name and no implementedFrom holds two
\* entries with the same "Interface.Method" name.
NoDuplicateLinks ==
    Done =>
        \A k \in 1..Len(result.structs) :
            /\ ~HasDuplicateName(result.structs[k].implementedInterfaces)
            /\ \A m \in 1..Len(result.structs[k].methods) :
                 ~HasDuplicateName(result.structs[k].methods[m].implementedFrom)

\* the signatures of the examples of the signature matcher
Signature(name, parameters, returnTypes) ==
    [name |-> name, parameters |-> parameters, returnTypes |-> returnTypes]

GetKV == Signature("Get", <<[name |-> "key", type |-> tK]>>, <<tV>>)
GetStringInt == Signature("Get", <<[name |-> "key", type |-> tString]>>, <<tInt>>)
GetIntInt == Signature("Get", <<[name |-> "key", type |-> tInt]>>, <<tInt>>)

\* the struct's type string equals the interface's, or the interface's is
\* exactly one character in A..Z
EqualOrPlaceholder(structType, interfaceType) ==
    \/ structType = interfaceType
    \/ \E c \in UpperCase : interfaceType = <<c>>

CompatibleSignatures(s, i) ==
    /\ s.name = i.name
    /\ Len(s.parameters) = Len(i.parameters)
    /\ Len(s.returnTypes) = Len(i.returnTypes)
    /\ \A k \in 1..Len(s.parameters) :
         EqualOrPlaceholder(s.parameters[k].type, i.parameters[k].type)
    /\ \A k \in 1..Len(s.returnTypes) :
         EqualOrPlaceholder(s.returnTypes[k], i.returnTypes[k])

\* C4: methodsMatch returns true exactly when the names are equal, the
\* parameter counts are equal, the return-type counts are equal and at every
\* position the struct's type string equals the interface's or the
\* interface's is one character in A..Z; interface Get(key K) V matches struct
\* Get(key string) int, interface Get(key string) int does not match struct
\* Get(key int) int.
MethodsMatchExact ==
    /\ methodsMatch(GetStringInt, GetKV)
    /\ ~methodsMatch(GetIntInt, GetStringInt)
    /\ matched # <<>> => matched[1] = CompatibleSignatures(structMethod, interfaceMethod)

\* methodsMatch returned true for a parameter and a return type that both
\* differ from the interface's
MatchedByPlaceholder ==
    /\ matched = <<TRUE>>
    /\ Len(structMethod.parameters) = 1
    /\ Len(structMethod.returnTypes) = 1
    /\ structMethod.parameters[1].type # interfaceMethod.parameters[1].type
    /\ structMethod.returnTypes[1] # interfaceMethod.returnTypes[1]

\* every method of the interface has a matching method in the struct
SatisfiesAll(struct, iface) ==
    \A i \in 1..Len(iface.methods) :
        \E j \in 1..Len(struct.methods) :
            methodsMatch(struct.methods[j], iface.methods[i])

\* C5: implementsInterface(S, I) is true if and only if every method of I has
\* a matching method in S, and the final result lists I in
\* S.implementedInterfaces exactly for the pairs (S, I) for which this holds.
ImplementsExactly ==
    Done =>
        \A k \in 1..Len(result.structs) :
            \A i \in 1..Len(result.interfaces) :
                LET S == result.structs[k]
                    I == result.interfaces[i]
                IN /\ implementsInterface(S, I) = SatisfiesAll(S, I)
                   /\ (\E e \in 1..Len(S.implementedInterfaces) :
                          S.implementedInterfaces[e] = I)
                      <=> SatisfiesAll(S, I)

\* the final result holds a struct listed as implementing an interface, and a
\* struct that matches a method of an interface without implementing it
ImplementedAndPartial ==
    /\ Done
    /\ \E k \in 1..Len(result.structs) :
         Len(result.structs[k].implementedInterfaces) > 0
    /\ \E k \in 1..Len(result.structs) :
         \E i \in 1..Len(result.interfaces) :
            /\ ~SatisfiesAll(result.structs[k], result.interfaces[i])
            /\ \E j \in 1..Len(result.structs[k].methods) :
                 \E m \in 1..Len(result.interfaces[i].methods) :
                    methodsMatch(result.structs[k].methods[j],
                                 result.interfaces[i].methods[m])

\* C6: the implementedInterfaces of every struct of the final result is the
\* one the extractor computed with types.Implements.
TypeCheckerPreferred ==
    Done =>
        \A k \in 1..Len(result.structs) :
            MapSeq(result.structs[k].implementedInterfaces, DeclarationOf)
            = Extracted.structs[k].implementedInterfaces

\* C7: every implementedInterfaces and every implementedFrom of the final
\* result holds the entries of one strategy only.  implementedInterfaces is
\* emptied before the post-processing fills it; implementedFrom is the
\* extractor's list followed by what the post-processing appended, so it is
\* unmixed when the extractor's list is empty or nothing was appended to it.
StrategiesNotMixed ==
    Done =>
        \A k \in 1..Len(result.structs) :
            \A m \in 1..Len(result.structs[k].methods) :
                \/ Len(Extracted.structs[k].methods[m].implementedFrom) = 0
                \/ Len(result.structs[k].methods[m].implementedFrom)
                   = Len(Extracted.structs[k].methods[m].implementedFrom)

\* the declaration a struct of the extractor's result was built from
SourceObject(s) ==
    CHOOSE obj \in UNION {{pkgs[p].Scope[n] : n \in DOMAIN pkgs[p].Scope} :
                             p \in 1..Len(pkgs)} :
        obj.name = s.Name /\ makeRelativePath(obj.file) = s.Position.Path

NamesOf(methods) == MapSeq(methods, LAMBDA f : f.name)

\* C8: no two entries of a struct's methods list have the same name; a struct
\* with value-receiver method Name and pointer-receiver methods Name and
\* SetName ends with exactly the entries Name and SetName.
UniqueMethodNames ==
    \A k \in 1..Len(goResult.Structs) :
        LET s == goResult.Structs[k]
        IN /\ \A i, j \in 1..Len(s.Methods) :
                i # j => s.Methods[i].Name # s.Methods[j].Name
           /\ (/\ NamesOf(MethodSet(SourceObject(s), FALSE)) = <<"Name">>
               /\ NamesOf(MethodSet(SourceObject(s), TRUE)) = <<"Name", "SetName">>)
              => MapSeq(s.Methods, LAMBDA m : m.Name) = <<"Name", "SetName">>

\* a struct whose two method sets share the name Name has been merged
SharedNameMerged ==
    \E k \in 1..Len(goResult.Structs) :
        /\ NamesOf(MethodSet(SourceObject(goResult.Structs[k]), FALSE)) = <<"Name">>
        /\ NamesOf(MethodSet(SourceObject(goResult.Structs[k]), TRUE))
           = <<"Name", "SetName">>

\* C9: the merged list holds every name of either method set: the
\* value-receiver entries in their order, then the pointer-only entries in
\* theirs, each with the position, parameters and return types of its entry
\* (the value-receiver entry when the name is in both sets).
ValueReceiverPrecedence ==
    \A k \in 1..Len(goResult.Structs) :
        LET s == goResult.Structs[k]
            obj == SourceObject(s)
            value == MethodSet(obj, FALSE)
            pointer == MethodSet(obj, TRUE)
            pointerOnly == SelectSeq(pointer, LAMBDA f :
                              \A i \in 1..Len(value) : value[i].name # f.name)
            expected == value \o pointerOnly
        IN /\ \A f \in {value[i] : i \in 1..Len(value)}
                       \cup {pointer[i] : i \in 1..Len(pointer)} :
                \E i \in 1..Len(s.Methods) : s.Methods[i].Name = f.name
           /\ Len(s.Methods) = Len(expected)
           /\ \A i \in 1..Len(expected) :
                /\ s.Methods[i].Name = expected[i].name
                /\ s.Methods[i].Position.Line = obj.line + expected[i].offset
                /\ s.Methods[i].Position.Path = makeRelativePath(obj.file)
                /\ MapSeq(s.Methods[i].Parameters, LAMBDA q : q.Type)
                   = MapSeq(expected[i].params, LAMBDA v : v.type)
                /\ MapSeq(s.Methods[i].Parameters, LAMBDA q : q.Name)
                   = MapSeq(expected[i].params, LAMBDA v : v.name)
                /\ s.Methods[i].ReturnTypes = expected[i].results

\* a struct whose pointer-only method Area sorts before its value-receiver
\* method Get has been merged
PointerOnlyAfterValue ==
    \E k \in 1..Len(goResult.Structs) :
        MapSeq(goResult.Structs[k].Methods, LAMBDA m : m.Name) = <<"Get", "Area">>

\* C10: every implementedFrom entry of the final result, whichever resolver
\* appended it, is named "I.M" for an interface I and a method M of I and
\* carries the position of M.
LinksCarryMethodPosition ==
    Done =>
        \A k \in 1..Len(result.structs) :
            \A m \in 1..Len(result.structs[k].methods) :
                \A e \in 1..Len(result.structs[k].methods[m].implementedFrom) :
                    LET entry == result.structs[k].methods[m].implementedFrom[e]
                    IN \E i \in 1..Len(result.interfaces) :
                         \E j \in 1..Len(result.interfaces[i].methods) :
                            /\ entry.name = result.interfaces[i].name \o "."
                                            \o result.interfaces[i].methods[j].name
                            /\ entry.position = result.interfaces[i].methods[j].position

\* C11: for every struct of the final result, implementedInterfaces holds one
\* entry per implemented interface, each entry a Declaration with the fields
\* name and position of that interface and no other field, in the order the
\* interfaces have in result.interfaces.
ImplementedInterfacesAreDeclarations ==
    Done =>
        \A k \in 1..Len(result.structs) :
            LET S == result.structs[k]
                implemented == SelectSeq(result.interfaces,
                                         LAMBDA I : SatisfiesAll(S, I))
            IN /\ Len(S.implementedInterfaces) = Len(implemented)
               /\ \A e \in 1..Len(implemented) :
                    /\ DOMAIN S.implementedInterfaces[e] = {"name", "position"}
                    /\ S.implementedInterfaces[e].name = implemented[e].name
                    /\ S.implementedInterfaces[e].position = implemented[e].position

TypesOf(parameters) == MapSeq(parameters, LAMBDA q : q.type)

\* C12: when the final result holds exactly one interface I and I has the
\* single method M, every struct owning a method named M with the parameter
\* and return types of M has implementedInterfaces = [I] and exactly one
\* implementedFrom entry, I.M, on that method; every struct without a method
\* named M has implementedInterfaces empty.
EndToEndSingleMethod ==
    (Done /\ Len(result.interfaces) = 1 /\ Len(result.interfaces[1].methods) = 1) =>
        LET I == result.interfaces[1]
            M == I.methods[1]
        IN \A k \in 1..Len(result.structs) :
            LET S == result.structs[k]
            IN /\ \A j \in 1..Len(S.methods) :
                    (/\ S.methods[j].name = M.name
                     /\ TypesOf(S.methods[j].parameters) = TypesOf(M.parameters)
                     /\ S.methods[j].returnTypes = M.returnTypes)
                    => /\ MapSeq(S.implementedInterfaces, DeclarationOf)
                          = <<DeclarationOf(I)>>
                       /\ Len(S.methods[j].implementedFrom) = 1
                       /\ S.methods[j].implementedFrom[1].name = I.name \o "." \o M.name
               /\ (\A j \in 1..Len(S.methods) : S.methods[j].name # M.name)
                  => S.implementedInterfaces = <<>>

\* the struct `name` declared in the file `path`, in the result r
StructOf(r, path, name) ==
    r.structs[CHOOSE k \in 1..Len(r.structs) :
                 r.structs[k].name = name /\ r.structs[k].position.path = path]

\* the struct sObj of package p has every method of the interface iObj of
\* another package q, with identical signatures
ImplementsAcrossPackages(p, sObj, q, iObj) ==
    /\ p # q
    /\ ~pkgs[p].Errors /\ ~pkgs[q].Errors
    /\ sObj.kind = "struct"
    /\ iObj.kind = "interface"
    /\ Len(iObj.methods) > 0
    /\ Implements(MethodSet(sObj, TRUE), iObj)

\* C13: a struct of one package that has every method of an interface of
\* another package, with identical signatures, is listed in the final result
\* as implementing that interface, and each of its methods that the
\* interface declares carries the implementedFrom link "I.M".
CrossPackageImplementation ==
    Done =>
        \A p, q \in 1..Len(pkgs) :
            \A sn \in DOMAIN pkgs[p].Scope :
                \A in \in DOMAIN pkgs[q].Scope :
                    LET sObj == pkgs[p].Scope[sn]
                        iObj == pkgs[q].Scope[in]
                        S == StructOf(result, makeRelativePath(sObj.file), sObj.name)
                    IN ImplementsAcrossPackages(p, sObj, q, iObj) =>
                        /\ \E e \in 1..Len(S.implementedInterfaces) :
                             /\ S.implementedInterfaces[e].name = iObj.name
                             /\ S.implementedInterfaces[e].position
                                = MarshalPosition(PositionOf(iObj, iObj.line))
                        /\ \A i \in 1..Len(iObj.methods) :
                             \E j \in 1..Len(S.methods) :
                                /\ S.methods[j].name = iObj.methods[i].name
                                /\ \E f \in 1..Len(S.methods[j].implementedFrom) :
                                     S.methods[j].implementedFrom[f].name
                                     = iObj.name \o "." \o iObj.methods[i].name

\* analyzeWorkspace resolved for a workspace whose package repositories holds
\* a struct implementing an interface of the package interfaces
CrossPackageImplemented ==
    /\ Done
    /\ Len(pkgs) = 2
    /\ \E sn \in DOMAIN pkgs[2].Scope :
         \E in \in DOMAIN pkgs[1].Scope :
            ImplementsAcrossPackages(2, pkgs[2].Scope[sn], 1, pkgs[1].Scope[in])

\* C14: whenever analyzeWorkspace resolves, the result has interfaces and
\* structs, every struct has methods, embeddedTypes and implementedInterfaces,
\* and every struct method has parameters, returnTypes and implementedFrom:
\* each is a (possibly empty) sequence, none is absent.
NullFree ==
    Done =>
        /\ {"interfaces", "structs"} \subseteq DOMAIN result
        /\ \A k \in 1..Len(result.structs) :
             /\ {"methods", "embeddedTypes", "implementedInterfaces"}
                \subseteq DOMAIN result.structs[k]
             /\ Len(result.structs[k].embeddedTypes) >= 0
             /\ Len(result.structs[k].implementedInterfaces) >= 0
             /\ \A m \in 1..Len(result.structs[k].methods) :
                  /\ {"parameters", "returnTypes", "implementedFrom"}
                     \subseteq DOMAIN result.structs[k].methods[m]
                  /\ Len(result.structs[k].methods[m].parameters) >= 0
                  /\ Len(result.structs[k].methods[m].returnTypes) >= 0
                  /\ Len(result.structs[k].methods[m].implementedFrom) >= 0

\* analyzeWorkspace resolved with a struct that embeds nothing and implements
\* nothing and has a method without parameters that matched no interface method
ResolvedWithEmptySequences ==
    /\ Done
    /\ \E k \in 1..Len(result.structs) :
         /\ result.structs[k].embeddedTypes = <<>>
         /\ result.structs[k].implementedInterfaces = <<>>
         /\ \E m \in 1..Len(result.structs[k].methods) :
              /\ result.structs[k].methods[m].parameters = <<>>
              /\ result.structs[k].methods[m].implementedFrom = <<>>

\* there is no workspace to analyze, or no package, or no declaration
NothingToAnalyze ==
    \/ ~workspaceFolders
    \/ workspacePath = ""
    \/ \A p \in 1..Len(pkgs) : DOMAIN pkgs[p].Scope = {}

\* C15: when there is nothing to analyze, a settled analysis whose toolchain
\* and analyzer process did not fail is resolved, with interfaces and structs
\* both empty.
NothingToAnalyzeIsNoError ==
    (/\ program = "goanalyzer"
     /\ NothingToAnalyze
     /\ settled # "pending"
     /\ rejection \notin {"Go installation not found", "Go analyzer failed with code"})
    => /\ settled = "resolved"
       /\ result = [interfaces |-> <<>>, structs |-> <<>>]

\* the packages of ws that carry no error, in their order
WithoutErrors(ws) == SelectSeq(ws, LAMBDA pkg : ~pkg.Errors)

\* the file names of the packages of ws that carry errors
ErrorPaths(ws) ==
    {makeRelativePath(PkgFile[p]) : p \in {q \in 1..Len(ws) : ws[q].Errors}}

\* C16: when the extractor has printed its result, no interface and no struct
\* of it comes from a package with errors, the result is the one of the
\* packages without errors, fully processed in their order, and
\* analyzeWorkspace does not reject.
SkipAndContinue ==
    (program = "goanalyzer" /\ exitCode = 0 /\ pkgs # <<>>) =>
        /\ \A i \in 1..Len(Extracted.interfaces) :
             Extracted.interfaces[i].position.path \notin ErrorPaths(pkgs)
        /\ \A k \in 1..Len(Extracted.structs) :
             Extracted.structs[k].position.path \notin ErrorPaths(pkgs)
        /\ Extracted = Marshal(AnalyzeFrom(WithoutErrors(pkgs), 1, 1, EmptyResult))
        /\ settled # "rejected"

\* the package interfaces carries errors and declares a struct, the package
\* repositories declares an interface and a struct and both are in the final
\* result
SkippedAndContinued ==
    /\ Done
    /\ Len(pkgs) = 2
    /\ pkgs[1].Errors
    /\ \E n \in DOMAIN pkgs[1].Scope : pkgs[1].Scope[n].kind = "struct"
    /\ Len(result.interfaces) = 1
    /\ Len(result.structs) = 1

\* the outputs that parse to a value that is not an object, or to an object
\* whose interfaces or structs is not an array
MalformedOutputs == {"null", "7", "[]", "{}",
                     "{\"interfaces\": []}",
                     "{\"interfaces\": [], \"structs\": null}"}

ValidationErrors == {"Invalid analyzer output: not an object",
                     "Invalid analyzer output: missing interfaces or structs arrays"}

\* C17: when the analyzer output is not an object, or its interfaces or its
\* structs is not an array, analyzeWorkspace rejects with a validation error,
\* does not resolve, and leaves the parsed value as it was parsed.
MalformedOutputRejected ==
    (program \in MalformedOutputs /\ exitCode = 0 /\ settled # "pending") =>
        /\ settled = "rejected"
        /\ rejection \in ValidationErrors
        /\ result = Nil
        /\ parsed = [text |-> program]

\* analyzeWorkspace rejected an object whose structs is null
MalformedRejected ==
    /\ program = "{\"interfaces\": [], \"structs\": null}"
    /\ settled = "rejected"
    /\ rejection = "Invalid analyzer output: missing interfaces or structs arrays"

\* C18: each of two concurrent calls for different workspaces settles as it
\* does when run alone: resolved, with the result of its own workspace.
ReentrantCalls ==
    \A c \in DOMAIN calls :
        calls[c].settled # "pending" =>
            /\ calls[c].settled = "resolved"
            /\ calls[c].result = ResultFor(ConcWorkspaces[calls[c].workspace])

\* a call made alone settles resolved with the result of its workspace
AloneResolves ==
    (Len(calls) = 2 /\ calls[2].pc = "unused" /\ calls[1].settled # "pending") =>
        /\ calls[1].settled = "resolved"
        /\ calls[1].result = ResultFor(ConcWorkspaces[calls[1].workspace])

\* C19: pure snapshot.  No two returns of getAnalysisData hand out the same
\* object; what a call returns is the result as its analysis produced it,
\* whatever earlier callers did to the results they hold; and within a result
\* no entry of implementedInterfaces is an element of interfaces.
PureSnapshot ==
    /\ \A g, h \in 1..Len(handed) : g # h => handed[g].ref # handed[h].ref
    /\ \A h \in 1..Len(handed) : handed[h].seen = heap[handed[h].ref].produced
    /\ \A r \in 1..Len(heap) :
         \A k \in 1..Len(heap[r].produced.structs) :
            \A e \in 1..Len(heap[r].produced.structs[k].implementedInterfaces) :
               \A i \in 1..Len(heap[r].produced.interfaces) :
                  heap[r].produced.structs[k].implementedInterfaces[e]
                  # heap[r].produced.interfaces[i]

\* C20: getAnalysisData returns the cached result only when forceRefresh is
\* false, a cached result exists and less than CacheTTL milliseconds have
\* passed since the cached result was obtained; a cached result of age
\* CacheTTL or more is never returned.
CachedOnlyWhenFresh ==
    \A h \in 1..Len(handed) :
        handed[h].fromCache =>
            /\ ~handed[h].forceRefresh
            /\ handed[h].ref # 0
            /\ handed[h].time - heap[handed[h].ref].obtained < CacheTTL

\* a call was served from a cache of age CacheTTL - 1
ServedFromCache ==
    \E h \in 1..Len(handed) :
        /\ handed[h].fromCache
        /\ handed[h].time - heap[handed[h].ref].obtained = CacheTTL - 1

\* C21: no interface without methods is recorded in the result's interfaces,
\* and every recorded interface has exactly one method entry per method of its
\* declaration, in the order of the declaration.
InterfacesInDeclarationOrder ==
    \A k \in 1..Len(goResult.Interfaces) :
        LET info == goResult.Interfaces[k]
        IN /\ Len(info.Methods) > 0
           /\ MapSeq(info.Methods, LAMBDA m : m.Name)
              = NamesOf(SourceObject(info).methods)

\* C24: link consistency.  In every result analyzeWorkspace resolves with, an
\* entry named "I.M" in the implementedFrom of a struct's method has its
\* interface I among the implementedInterfaces of that struct.
LinkConsistency ==
    Done =>
        \A k \in 1..Len(result.structs) :
            \A m \in 1..Len(result.structs[k].methods) :
                LET method == result.structs[k].methods[m]
                    listed == result.structs[k].implementedInterfaces
                IN \A e \in 1..Len(method.implementedFrom) :
                      \E j \in 1..Len(listed), n \in 1..Len(MethodNames) :
                          method.implementedFrom[e].name
                          = listed[j].name \o "." \o MethodNames[n]

\* the type string is exactly one character in A..Z
SingleUpperCase(type) == \E c \in UpperCase : type = <<c>>

\* C25: the wildcard of methodsMatch is one-sided and parameter names are
\* ignored.  When at some position the struct's type is a single upper-case
\* letter and the interface's type is a different string that is not a
\* single upper-case letter, methodsMatch returns false; and two methods with
\* the same name, parameter types and return types match whatever their
\* parameter names are.
WildcardOneSided ==
    matched # <<>> =>
        /\ (\E k \in 1..Len(structMethod.parameters) :
               /\ k <= Len(interfaceMethod.parameters)
               /\ SingleUpperCase(structMethod.parameters[k].type)
               /\ interfaceMethod.parameters[k].type # structMethod.parameters[k].type
               /\ ~SingleUpperCase(interfaceMethod.parameters[k].type))
           => matched = <<FALSE>>
        /\ (\E k \in 1..Len(structMethod.returnTypes) :
               /\ k <= Len(interfaceMethod.returnTypes)
               /\ SingleUpperCase(structMethod.returnTypes[k])
               /\ interfaceMethod.returnTypes[k] # structMethod.returnTypes[k]
               /\ ~SingleUpperCase(interfaceMethod.returnTypes[k]))
           => matched = <<FALSE>>
        /\ (/\ structMethod.name = interfaceMethod.name
            /\ TypesOf(structMethod.parameters) = TypesOf(interfaceMethod.parameters)
            /\ structMethod.returnTypes = interfaceMethod.returnTypes)
           => matched = <<TRUE>>

\* methodsMatch returned false for a struct parameter of type K against an
\* interface parameter of another name and of a type that is no placeholder
StructPlaceholderRefused ==
    /\ matched = <<FALSE>>
    /\ structMethod.name = interfaceMethod.name
    /\ Len(structMethod.parameters) = 1
    /\ Len(interfaceMethod.parameters) = 1
    /\ structMethod.returnTypes = interfaceMethod.returnTypes
    /\ structMethod.parameters[1].type = tK
    /\ interfaceMethod.parameters[1].type = tInt
    /\ structMethod.parameters[1].name # interfaceMethod.parameters[1].name

\* C26: cache under interleaving.  When an analysis completes during which
\* invalidateCache was called, the cache is empty afterwards, so the result
\* of that analysis is not served from the cache to a later call.
InvalidationOutlivesAnalysis ==
    [][\A c \in Callers :
          (/\ callers[c].pc = "analyzing"
           /\ callers[c].invalidated
           /\ callers'[c].pc = "idle"
           /\ Len(handed') = Len(handed) + 1)
          => cache' = 0]_vars

\* the collected stdout parses to an object with the two arrays
ParsesToValidResult(out) ==
    /\ ~IsBlank(out)
    /\ JSONParse(out[1]).type = "object"
    /\ {"interfaces", "structs"} \subseteq JSONParse(out[1]).arrays

\* C27: analyzer process outcomes.  analyzeWorkspace is resolved only when
\* the analyzer process has closed with exit code 0 and its stdout is not
\* blank and parses to a valid result; after a close with a non-zero exit
\* code, after a process start error, and after a close with blank or
\* unparsable stdout the promise is rejected; and a promise that is rejected
\* is never resolved afterwards.
AnalyzerOutcomes ==
    [][/\ settled' = "resolved" =>
            closed' /\ exitCode' = 0 /\ ParsesToValidResult(stdout')
       /\ (closed' /\ exitCode' # 0) => settled' = "rejected"
       /\ exitCode' = SpawnErrorCode => settled' = "rejected"
       /\ (closed' /\ ~ParsesToValidResult(stdout')) => settled' = "rejected"
       /\ settled = "rejected" => settled' = "rejected"]_vars

\* the process could not be started: the error handler rejected, and the
\* close handler that ran after it left the promise rejected
StartErrorThenClose ==
    /\ exitCode = SpawnErrorCode
    /\ closed
    /\ settled = "rejected"
    /\ rejection = "Failed to start analyzer"

-----------------------------------------------------------------------------
(* GoAnalyzerService.getStruct: one analyzeWorkspace call, awaited, and the  *)
(* search of its result.  The analysis is the one of the single-call         *)
(* specification, taken in one step.                                         *)

LookupBodies == {iShape, sCircle, sSquare}

\* the workspaces getStruct is called for: up to MaxDecls declarations, a
\* struct name possibly declared in both packages
LookupWorkspaces ==
    { Workspace(decl) :
        decl \in UNION { [S -> LookupBodies] :
                           S \in {T \in SUBSET Slots : Cardinality(T) <= MaxDecls} } }

\* find returning the last struct of that name
FindStructLast(r, name) ==
    LET hits == {k \in 1..Len(r.structs) : r.structs[k].name = name}
    IN IF hits = {} THEN Undefined
       ELSE r.structs[CHOOSE k \in hits : \A j \in hits : j <= k]

\* result.structs.find(s => s.name === structName)
FindStruct(r, name) ==
    LET k == Find(r.structs, LAMBDA s : s.name = name)
    IN IF k = 0 THEN Undefined ELSE r.structs[k]

\* struct || null: an object is truthy, undefined is not
OrNull(struct) == IF struct = Undefined THEN Null ELSE struct

InitGetStruct ==
    /\ workspaceFolders = TRUE
    /\ workspacePath = WorkspacePath
    /\ program = "goanalyzer"
    /\ pkgs \in LookupWorkspaces
    /\ pkgIdx = 1
    /\ nameIdx = 1
    /\ goResult = EmptyResult
    /\ spawned = FALSE
    /\ stdout = <<>>
    /\ exitCode = -1
    /\ closed = FALSE
    /\ settled = "pending"
    /\ result = Nil
    /\ rejection = ""
    /\ parsed = Nil
    /\ structName \in {TypeNames[i] : i \in 1..Len(TypeNames)}
    /\ getStructPc = "idle"
    /\ returned = Nil
    /\ IdleMatch
    /\ IdleConc
    /\ IdleCache
    /\ IdleDecorate
    /\ IdleClick

notGetStruct ==
    <<inputVars, extractorVars, spawned, stdout, exitCode, closed, parsed,
      matchVars, concVars, cacheVars, decorateVars, clickVars>>

\* getStruct up to its await
GetStruct ==
    /\ getStructPc = "idle"
    /\ getStructPc' = "awaiting"
    /\ UNCHANGED <<structName, returned, settled, result, rejection, notGetStruct>>

\* analyzeWorkspace resolves with the result for the workspace
GetStructAnalysisResolves ==
    /\ getStructPc = "awaiting"
    /\ settled = "pending"
    /\ settled' = "resolved"
    /\ result' = ResultFor(pkgs)
    /\ UNCHANGED <<structName, getStructPc, returned, rejection, notGetStruct>>

\* analyzeWorkspace rejects
GetStructAnalysisRejects ==
    /\ getStructPc = "awaiting"
    /\ settled = "pending"
    /\ settled' = "rejected"
    /\ rejection' = "Go analyzer failed with code"
    /\ UNCHANGED <<structName, getStructPc, returned, result, notGetStruct>>

\* getStruct from its await to its return
GetStructReturns ==
    /\ getStructPc = "awaiting"
    /\ settled = "resolved"
    /\ returned' = OrNull(FindStruct(result, structName))
    /\ getStructPc' = "returned"
    /\ UNCHANGED <<structName, settled, result, rejection, notGetStruct>>

\* the await throws: getStruct rejects with the error of analyzeWorkspace
GetStructThrows ==
    /\ getStructPc = "awaiting"
    /\ settled = "rejected"
    /\ getStructPc' = "thrown"
    /\ UNCHANGED <<structName, returned, settled, result, rejection, notGetStruct>>

NextGetStruct ==
    \/ GetStruct
    \/ GetStructAnalysisResolves
    \/ GetStructAnalysisRejects
    \/ GetStructReturns
    \/ GetStructThrows

SpecGetStruct == InitGetStruct /\ [][NextGetStruct]_vars

\* the places of the structs named structName in the analysis result
StructsNamed == {k \in 1..Len(result.structs) : result.structs[k].name = structName}

\* C22: getStruct returns the first struct of the analysis result whose name
\* equals structName; it returns null exactly when no struct of the result
\* has that name, and never a struct of another name.
GetStructFirstOrNull ==
    getStructPc = "returned" =>
        /\ returned = Null <=> StructsNamed = {}
        /\ StructsNamed # {} =>
              /\ returned = result.structs[CHOOSE k \in StructsNamed :
                                              \A j \in StructsNamed : k <= j]
              /\ returned.name = structName

\* getStruct returned the first of two different structs of the name
FirstOfTwoReturned ==
    /\ getStructPc = "returned"
    /\ \E k, j \in StructsNamed :
          /\ k < j
          /\ result.structs[k] # result.structs[j]
          /\ returned = result.structs[k]

-----------------------------------------------------------------------------
(* decorateStructDeclarations: the "implements" annotation at the end of the *)
(* line of each struct declaration of a document, from the analysis data in  *)
(* the storage.  A name is a sequence of one-character strings.  The         *)
(* document is given by its language and by the names the pattern            *)
(* structRegex captures in its text, the i-th on line i.                     *)

\* the longest implementedInterfaces list of a stored struct
MaxListed == 2

\* the characters of the names, in the order of their UTF-16 code units
CodeUnits == <<"A", "B", "R", "S", "T", "[", "]">>

StoredInterfaceNames ==
    {<<"B">>, <<"A", "B">>, <<"A">>, <<"B", "[", "T", "]">>}
StoredStructNames == {<<"S">>, <<"S", "[", "T", "]">>}

\* the structs the storage may hold: the fields the decoration reads
StoredStructs ==
    [name : StoredStructNames,
     implementedInterfaces : SeqsUpTo([name : StoredInterfaceNames], MaxListed)]

\* the analysis data saved under STORAGE_KEY: no struct, one struct, or two
StoredData ==
    {[structs |-> <<>>]}
        \cup {[structs |-> <<s>>] : s \in StoredStructs}
        \cup {[structs |-> <<s, t>>] : s \in StoredStructs, t \in StoredStructs}

Documents ==
    {[languageId |-> "go", declarations |-> <<<<"S">>>>],
     [languageId |-> "go", declarations |-> <<<<"R">>, <<"S">>>>],
     [languageId |-> "plaintext", declarations |-> <<<<"S">>>>]}

\* name.split('[')[0]
BaseName(name) ==
    IF \E i \in 1..Len(name) : name[i] = "["
    THEN SubSeq(name, 1, (CHOOSE i \in 1..Len(name) :
                            name[i] = "[" /\ \A j \in 1..(i - 1) : name[j] # "[") - 1)
    ELSE name

\* Array.from(new Set(names)): the first occurrence of each name, in order
RECURSIVE Unique(_)
Unique(names) ==
    IF names = <<>> THEN <<>>
    ELSE LET rest == Unique(SubSeq(names, 1, Len(names) - 1))
             last == names[Len(names)]
         IN IF \E i \in 1..Len(rest) : rest[i] = last THEN rest
            ELSE Append(rest, last)

\* the comparison of the default sort: the strings by their code units
RECURSIVE CodeUnitLess(_, _)
CodeUnitLess(a, b) ==
    IF b = <<>> THEN FALSE
    ELSE IF a = <<>> THEN TRUE
    ELSE IF a[1] = b[1] THEN CodeUnitLess(Tail(a), Tail(b))
    ELSE Rank(CodeUnits, a[1]) < Rank(CodeUnits, b[1])

\* sort leaving the names in the order of the Set
SortLeavingOrder(names) == names

\* Array.prototype.sort() without a comparison function
RECURSIVE Sort(_)
Sort(names) ==
    IF names = <<>> THEN <<>>
    ELSE LET m == CHOOSE i \in 1..Len(names) :
                     \A j \in 1..Len(names) :
                        names[j] = names[i] \/ CodeUnitLess(names[i], names[j])
         IN <<names[m]>>
            \o Sort(SubSeq(names, 1, m - 1) \o SubSeq(names, m + 1, Len(names)))

\* uniqueInterfaces.join(', ')
RECURSIVE Join(_)
Join(names) ==
    IF names = <<>> THEN <<>>
    ELSE IF Len(names) = 1 THEN names[1]
    ELSE names[1] \o <<",", " ">> \o Join(Tail(names))

\* the decoration of the declaration on line `line`, for the struct found
DecorationOf(line, struct) ==
    LET uniqueInterfaces ==
            Sort(Unique(MapSeq(struct.implementedInterfaces,
                               LAMBDA i : BaseName(i.name))))
    IN [line |-> line,
        contentText |-> <<"    // implements: ">> \o Join(uniqueInterfaces)]

\* the loop over the matches of structRegex, from match i on
RECURSIVE DecorateFrom(_, _, _, _)
DecorateFrom(doc, data, i, options) ==
    IF i > Len(doc.declarations) THEN options
    ELSE LET k == Find(data.structs,
                       LAMBDA s : BaseName(s.name) = doc.declarations[i])
         IN IF k # 0 /\ Len(data.structs[k].implementedInterfaces) > 0
            THEN DecorateFrom(doc, data, i + 1,
                              Append(options, DecorationOf(i, data.structs[k])))
            ELSE DecorateFrom(doc, data, i + 1, options)

InitDecorate ==
    /\ analysisData = Undefined
    /\ document \in Documents
    /\ decorations = <<>>
    /\ decorated = "no"
    /\ IdleCall
    /\ IdleMatch
    /\ IdleConc
    /\ IdleCache
    /\ IdleLookup
    /\ IdleClick

notDecorate ==
    <<inputVars, extractorVars, callVars, matchVars, concVars, cacheVars,
      lookupVars, clickVars>>

\* analyzeWorkspaceAndStore up to the end of storageManager.saveAnalysisData
SaveAnalysisData ==
    /\ analysisData = Undefined
    /\ \E data \in StoredData : analysisData' = data
    /\ UNCHANGED <<document, decorations, decorated, notDecorate>>

\* decorateGoFile on the editor of the document: the refresh after the
\* analysis was stored, or a change of the active editor.  decorations holds
\* the options of the last setDecorations call
DecorateGoFile ==
    /\ document.languageId = "go"
    /\ IF analysisData = Undefined
       THEN /\ decorated = "no"
            /\ decorated' = "returned"
            /\ decorations' = decorations
       ELSE /\ decorated # "set"
            /\ decorated' = "set"
            /\ decorations' = DecorateFrom(document, analysisData, 1, <<>>)
    /\ UNCHANGED <<analysisData, document, notDecorate>>

NextDecorate ==
    \/ SaveAnalysisData
    \/ DecorateGoFile

SpecDecorate == InitDecorate /\ [][NextDecorate]_vars

\* the stored struct the declaration named `declared` is looked up to: the
\* places of the structs whose base name is that name
StoredAs(declared) ==
    {k \in 1..Len(analysisData.structs) :
        BaseName(analysisData.structs[k].name) = declared}

\* u lists the names of the set S once each, in ascending order
ListsAscending(u, S) ==
    /\ {u[i] : i \in 1..Len(u)} = S
    /\ \A i \in 1..(Len(u) - 1) : CodeUnitLess(u[i], u[i + 1])

-----------------------------------------------------------------------------
(* handleMouseClick: the handler of onDidChangeTextEditorSelection, over a   *)
(* sequence of selection changes.  A file name is a sequence of              *)
(* one-character strings.                                                    *)

\* buttonEnd = buttonStart + 25
ButtonWidth == 25

\* the largest number of navigations followed
MaxClicks == 3

FileNames == {<<"a", ".", "g", "o">>, <<"g", "o", ".", "m", "o", "d">>}

\* the lengths of the line the cursor is on, and the characters the cursor
\* is at: on both sides of either end of the button area
LineLengths == {0, 3}
Characters == {0, 3, ButtonWidth, ButtonWidth + 1, 3 + ButtonWidth, 3 + ButtonWidth + 1}

\* a selection change: e.textEditor.document.fileName, e.selections[0].active
\* and the length of the text of the line the position is on
SelectionChanges ==
    [fileName : FileNames, line : {0, 1}, character : Characters,
     lineLength : LineLengths]

\* fileName.endsWith(suffix)
EndsWith(fileName, suffix) ==
    /\ Len(fileName) >= Len(suffix)
    /\ SubSeq(fileName, Len(fileName) - Len(suffix) + 1, Len(fileName)) = suffix

\* "Check if this is a new click at the same position"
IsDuplicateClick(position) ==
    /\ lastClickPosition # Undefined
    /\ lastClickPosition.line = position.line
    /\ lastClickPosition.character = position.character

\* the button area one character wider
ButtonEndWider(buttonStart) == buttonStart + ButtonWidth + 1

ButtonEnd(buttonStart) == buttonStart + ButtonWidth

\* "Only trigger if click is in the button area of the first line"
InButtonArea(position, buttonStart) ==
    /\ position.line = 0
    /\ position.character >= buttonStart
    /\ position.character <= ButtonEnd(buttonStart)

InitClick ==
    /\ lastClickPosition = Undefined
    /\ navigations = <<>>
    /\ IdleCall
    /\ IdleMatch
    /\ IdleConc
    /\ IdleCache
    /\ IdleLookup
    /\ IdleDecorate

notClick ==
    <<inputVars, extractorVars, callVars, matchVars, concVars, cacheVars,
      lookupVars, decorateVars>>

\* handleMouseClick(e); navigations records the events at which
\* go-spot.navigateToTest was executed
HandleMouseClick(e) ==
    /\ Len(navigations) < MaxClicks
    /\ LET position == [line |-> e.line, character |-> e.character]
           buttonStart == e.lineLength
       IN IF ~EndsWith(e.fileName, <<".", "g", "o">>)
          THEN UNCHANGED <<lastClickPosition, navigations>>
          ELSE IF IsDuplicateClick(position)
               THEN UNCHANGED <<lastClickPosition, navigations>>
               ELSE IF InButtonArea(position, buttonStart)
                    THEN /\ lastClickPosition' = position
                         /\ navigations' = Append(navigations, e)
                    ELSE UNCHANGED <<lastClickPosition, navigations>>
    /\ UNCHANGED notClick

NextClick == \E e \in SelectionChanges : HandleMouseClick(e)

SpecClick == InitClick /\ [][NextClick]_vars

\* C28: click handling.  Every selection change that executed
\* go-spot.navigateToTest was in a .go file, on line 0, at a character from
\* the length of the line to that length plus 25, and at a position other
\* than that of the change that executed the command before it: a change
\* repeating the last navigating position does not navigate again.
NavigatesOnlyFromButton ==
    /\ \A n \in 1..Len(navigations) :
          /\ EndsWith(navigations[n].fileName, <<".", "g", "o">>)
          /\ navigations[n].line = 0
          /\ navigations[n].character >= navigations[n].lineLength
          /\ navigations[n].character <= navigations[n].lineLength + 25
          /\ n > 1 => navigations[n].character # navigations[n - 1].character
    /\ navigations # <<>> =>
          lastClickPosition
          = [line |-> 0, character |-> navigations[Len(navigations)].character]

\* a click at the far end of the button area navigated, and a position
\* navigated a second time after another position had
NavigatedAgainAfterAnother ==
    /\ Len(navigations) = 3
    /\ navigations[1].character = navigations[3].character
    /\ navigations[2].character = navigations[2].lineLength + ButtonWidth

====
